---- MODULE Spec2Model ----
(***************************************************************************)
(* oniongen.c: brute-force search for an RSA key whose service ID (the     *)
(* base32 encoding of the first 10 bytes of the SHA1 digest of the public  *)
(* key) starts with a given pattern.                                       *)
(*                                                                         *)
(* Characters and bytes are their numeric codes; a C string is the         *)
(* sequence of its bytes, the terminating '\0' written out where a buffer  *)
(* holds it.  Patterns are drawn from 7-bit bytes: the program never calls *)
(* setlocale, so islower() is the "C" locale's.                            *)
(***************************************************************************)
EXTENDS Integers, Sequences, FiniteSets, TLC

(* ------------------------------ constants ------------------------------ *)

REND_SERVICE_ID_LEN_BASE32 == 16
REND_SERVICE_ID_LEN == 10
DIGEST_LEN == 20

\* "ABCDEFGHIJKLMNOPQRSTUVWXYZ234567"
BASE32_CHARS_UPPER ==
  << 65, 66, 67, 68, 69, 70, 71, 72, 73, 74, 75, 76, 77,
     78, 79, 80, 81, 82, 83, 84, 85, 86, 87, 88, 89, 90,
     50, 51, 52, 53, 54, 55 >>

\* "abcdefghijklmnopqrstuvwxyz234567"
BASE32_CHARS ==
  << 97, 98, 99, 100, 101, 102, 103, 104, 105, 106, 107, 108, 109,
     110, 111, 112, 113, 114, 115, 116, 117, 118, 119, 120, 121, 122,
     50, 51, 52, 53, 54, 55 >>

(* ------------------------------- bounds -------------------------------- *)

MaxPrefixLen == 1    \* free characters at the head of a pattern
MaxFill == 17        \* 'a' characters appended to it (so lengths reach 17, 18)
MaxTrials == 2       \* key generations per run
MaxSrcLen == 5       \* length of the exhaustive inputs of base32_encode
MaxDestLen == 17     \* destlen passed to base32_encode

(* ------------------------------- inputs -------------------------------- *)

Rep(c, n) == [k \in 1..n |-> c]

\* 0x01 0x02 0x08 '!' '1' '2' '8' 'A' 'a' 'z'
CharSample == {1, 2, 8, 33, 49, 50, 56, 65, 97, 122}

\* "abc234", "ABC", "abc"
ExamplePatterns == { <<97, 98, 99, 50, 51, 52>>, <<65, 66, 67>>, <<97, 98, 99>> }

Patterns ==
  { p \o Rep(97, n) :
      p \in UNION { [1..m -> CharSample] : m \in 0..MaxPrefixLen },
      n \in 0..MaxFill }
  \cup ExamplePatterns

\* What SHA1 may return: 20 zero bytes, the same head with another tail, and
\* a digest whose head has bits set in every position of the 5-bit windows.
MixedHead == << 200, 0, 255, 90, 165, 19, 55, 224, 127, 129 >>

Digests ==
  { Rep(0, DIGEST_LEN),
    Rep(0, REND_SERVICE_ID_LEN) \o Rep(255, DIGEST_LEN - REND_SERVICE_ID_LEN),
    MixedHead \o Rep(165, DIGEST_LEN - REND_SERVICE_ID_LEN) }

ByteSample == {0, 165, 255}

\* Arguments (src, srclen) of base32_encode: every short byte string, and the
\* call rend_get_service_id makes.
EncodeInputs ==
  { [src |-> s, srclen |-> Len(s)] :
      s \in UNION { [1..n -> ByteSample] : n \in 0..MaxSrcLen } }
  \cup { [src |-> d, srclen |-> REND_SERVICE_ID_LEN] : d \in Digests }

(* ------------------------------ C helpers ------------------------------ *)

\* The bytes of the C string held in buffer s: those before the first '\0'.
RECURSIVE CStr(_)
CStr(s) == IF s = <<>> \/ Head(s) = 0 THEN <<>> ELSE <<Head(s)>> \o CStr(Tail(s))

strlen(s) == Len(CStr(s))

\* Byte i (from 0) of a C string, the terminator included.
CharAt(s, i) == IF i < Len(s) THEN s[i + 1] ELSE 0

islower(c) == c >= 97 /\ c <= 122

\* strncmp(s1, s2, n) == 0
RECURSIVE StrncmpEq(_, _, _, _)
StrncmpEq(s1, s2, n, k) ==
  IF k >= n THEN TRUE
  ELSE IF CharAt(s1, k) # CharAt(s2, k) THEN FALSE
  ELSE IF CharAt(s1, k) = 0 THEN TRUE
  ELSE StrncmpEq(s1, s2, n, k + 1)

(* --------------------------- pattern checks ---------------------------- *)

\* pattern_is_not_too_long with < for <=.
pattern_is_shorter_than_service_id(pattern) == strlen(pattern) < REND_SERVICE_ID_LEN_BASE32

pattern_is_not_too_long(pattern) == strlen(pattern) <= REND_SERVICE_ID_LEN_BASE32

\* The loop returns false at the first character that is neither islower nor
\* in the range 2..7 (the numeric values, as the source writes them).
pattern_has_valid_chars(pattern) ==
  \A i \in 0..(strlen(pattern) - 1) :
    islower(CharAt(pattern, i)) \/ (CharAt(pattern, i) >= 2 /\ CharAt(pattern, i) <= 7)

\* Characters the validity loop tests before it returns.
chars_tested(pattern) ==
  LET bad == { i \in 0..(strlen(pattern) - 1) :
                 ~(islower(CharAt(pattern, i))
                   \/ (CharAt(pattern, i) >= 2 /\ CharAt(pattern, i) <= 7)) }
  IN IF bad = {} THEN strlen(pattern)
     ELSE 1 + CHOOSE i \in bad : \A j \in bad : i <= j

\* pattern_matches_service_id with strcmp for strncmp.
pattern_equals_service_id(pattern, service_id) == CStr(pattern) = CStr(service_id)

pattern_matches_service_id(pattern, service_id) ==
  StrncmpEq(pattern, service_id, strlen(pattern), 0)

(* -------------------------------- state -------------------------------- *)

VARIABLES
  pattern,      \* argv[1], the argument of generate_service
  pc,           \* position of the program
  failed,       \* the assertion that aborted the run, "" while none has
  tested,       \* characters the validity loop has tested
  private_key,  \* generate_service's private_key: the RSA object it points to
  ngen,         \* RSA objects RSA_generate_key has returned
  allocated,    \* RSA objects allocated and not freed
  buf,          \* rend_get_service_id's digest buffer
  src, srclen,  \* base32_encode's arguments; in a run of generate_service
  dest, destlen,\*   dest is the buffer service_id
  i, bit,       \* base32_encode's loop variables
  srcReads,     \* indices of src the current call has read
  destWrites,   \* indices of dest the current call has written
  skipped,      \* bit offsets whose look-ahead byte the call did not read
  trials,       \* history: digest and service ID of every trial
  stop,         \* external stop signal: <<>>, or <<ngen>> as it was when raised
  dirCreated,   \* export_private_key's mkdir has succeeded
  exported      \* the RSA object written to the PEM file, 0 while none is

vars == << pattern, pc, failed, tested, private_key, ngen, allocated, buf,
           src, srclen, dest, destlen, i, bit, srcReads, destWrites, skipped,
           trials, stop, dirCreated, exported >>

encoderVars == << src, srclen, dest, destlen, i, bit, srcReads, destWrites, skipped >>
searchVars == << private_key, ngen, allocated, buf, trials, dirCreated, exported >>

Uninit == -1      \* an indeterminate byte of a buffer never written

service_id == dest

Init ==
  /\ pattern \in Patterns
  /\ pc = "validate_length"
  /\ failed = ""
  /\ tested = 0
  /\ private_key = 0
  /\ ngen = 0
  /\ allocated = {}
  /\ buf = Rep(Uninit, DIGEST_LEN)
  /\ src = <<>>
  /\ srclen = 0
  /\ dest = Rep(Uninit, REND_SERVICE_ID_LEN_BASE32 + 1)
  /\ destlen = 0
  /\ i = 0
  /\ bit = 0
  /\ srcReads = {}
  /\ destWrites = {}
  /\ skipped = {}
  /\ trials = <<>>
  /\ stop = <<>>
  /\ dirCreated = FALSE
  /\ exported = 0

Abort(assertion) ==
  /\ pc' = "aborted"
  /\ failed' = assertion

(* --------------------------- generate_service -------------------------- *)

\* assert(pattern_is_not_too_long(pattern));
AssertNotTooLong ==
  /\ pc = "validate_length"
  /\ IF pattern_is_not_too_long(pattern)
       THEN pc' = "validate_chars" /\ failed' = failed
       ELSE Abort("pattern_is_not_too_long")
  /\ UNCHANGED << pattern, tested, stop >>
  /\ UNCHANGED searchVars
  /\ UNCHANGED encoderVars

\* assert(pattern_has_valid_chars(pattern));
AssertValidChars ==
  /\ pc = "validate_chars"
  /\ IF ~pattern_is_not_too_long(pattern)
       THEN Abort("pattern_is_not_too_long") /\ tested' = tested
       ELSE /\ tested' = chars_tested(pattern)
            /\ IF pattern_has_valid_chars(pattern)
                 THEN pc' = "generate" /\ failed' = failed
                 ELSE Abort("pattern_has_valid_chars")
  /\ UNCHANGED << pattern, stop >>
  /\ UNCHANGED searchVars
  /\ UNCHANGED encoderVars

\* GenerateKey with a stop check at the top of the iteration.
GenerateKeyUnlessStopped ==
  /\ pc = "generate"
  /\ ngen < MaxTrials
  /\ IF stop # <<>>
       THEN /\ pc' = "done"
            /\ UNCHANGED << failed, private_key, ngen, allocated >>
       ELSE /\ ngen' = ngen + 1
            /\ private_key' = ngen + 1
            /\ allocated' = allocated \cup {ngen + 1}
            /\ pc' = "digest"
            /\ failed' = failed
  /\ UNCHANGED << pattern, tested, stop, buf, trials, dirCreated, exported >>
  /\ UNCHANGED encoderVars

\* private_key = RSA_generate_key(...); assert(private_key != NULL);
\* The previous RSA object is not freed.
GenerateKey ==
  /\ pc = "generate"
  /\ ngen < MaxTrials
  /\ \E ok \in BOOLEAN :
       IF ok
         THEN /\ ngen' = ngen + 1
              /\ private_key' = ngen + 1
              /\ allocated' = allocated \cup {ngen + 1}
              /\ pc' = "digest"
              /\ failed' = failed
         ELSE /\ private_key' = 0
              /\ Abort("private_key != NULL")
              /\ UNCHANGED << ngen, allocated >>
  /\ UNCHANGED << pattern, tested, stop, buf, trials, dirCreated, exported >>
  /\ UNCHANGED encoderVars

\* rend_get_service_id: assert(crypto_pk_get_digest(pk, buf)), then the call
\* base32_encode(out, REND_SERVICE_ID_LEN_BASE32+1, buf, REND_SERVICE_ID_LEN).
GetDigest ==
  /\ pc = "digest"
  /\ \/ /\ \E d \in Digests : buf' = d /\ src' = d
        /\ srclen' = REND_SERVICE_ID_LEN
        /\ destlen' = REND_SERVICE_ID_LEN_BASE32 + 1
        /\ i' = 0 /\ bit' = 0
        /\ srcReads' = {} /\ destWrites' = {} /\ skipped' = {}
        /\ pc' = "base32_assert"
        /\ failed' = failed
     \/ /\ Abort("crypto_pk_get_digest")
        /\ UNCHANGED << buf, src, srclen, destlen, i, bit, srcReads, destWrites, skipped >>
  /\ UNCHANGED << pattern, tested, stop, dest, private_key, ngen, allocated,
                  trials, dirCreated, exported >>

(* ----------------------------- base32_encode --------------------------- *)

nbits == srclen * 8

\* What reading src[idx] yields: the byte, or any byte when idx lies outside
\* the buffer.
ReadSrc(idx) == IF idx < Len(src) THEN {src[idx + 1]} ELSE ByteSample

\* dest[idx] = c; a write outside the buffer leaves the buffer as it is.
WriteDest(idx, c) == IF idx < Len(dest) THEN [dest EXCEPT ![idx + 1] = c] ELSE dest

\* LookAhead with <= for <.
LookAheadInclusive(b) == b + 5 <= nbits

\* if (bit+5<nbits)
LookAhead(b) == b + 5 < nbits

\* Window shifting by 10-(bit%8).
WindowOffByOne(v, b) == (v \div 2^(10 - (b % 8))) % 32

\* (v >> (11-(bit%8))) & 0x1F
Window(v, b) == (v \div 2^(11 - (b % 8))) % 32

\* assert((nbits%5) == 0); assert((nbits/5)+1 <= destlen);
Base32Asserts ==
  /\ pc = "base32_assert"
  /\ IF nbits % 5 # 0 THEN Abort("(nbits%5) == 0")
     ELSE IF ~((nbits \div 5) + 1 <= destlen) THEN Abort("(nbits/5)+1 <= destlen")
     ELSE pc' = "base32_loop" /\ failed' = failed
  /\ UNCHANGED << pattern, tested, stop >>
  /\ UNCHANGED searchVars
  /\ UNCHANGED encoderVars

\* One iteration of for (i=0,bit=0; bit < nbits; ++i, bit+=5).
Base32Loop ==
  /\ pc = "base32_loop"
  /\ bit < nbits
  /\ \E hi \in ReadSrc(bit \div 8) :
     \E lo \in (IF LookAhead(bit) THEN ReadSrc((bit \div 8) + 1) ELSE {0}) :
       LET v == hi * 256 + lo
           u == Window(v, bit)
       IN dest' = WriteDest(i, BASE32_CHARS[u + 1])
  /\ srcReads' = srcReads \cup {bit \div 8}
                          \cup (IF LookAhead(bit) THEN {(bit \div 8) + 1} ELSE {})
  /\ skipped' = skipped \cup (IF LookAhead(bit) THEN {} ELSE {bit})
  /\ destWrites' = destWrites \cup {i}
  /\ i' = i + 1
  /\ bit' = bit + 5
  /\ UNCHANGED << pattern, pc, failed, tested, stop, src, srclen, destlen >>
  /\ UNCHANGED searchVars

\* dest[i] = '\0'; and the return.
Base32Terminate ==
  /\ pc = "base32_loop"
  /\ ~(bit < nbits)
  /\ dest' = WriteDest(i, 0)
  /\ destWrites' = destWrites \cup {i}
  /\ pc' = "base32_return"
  /\ UNCHANGED << pattern, failed, tested, stop, src, srclen, destlen, i, bit,
                  srcReads, skipped >>
  /\ UNCHANGED searchVars

(* ---------------------- generate_service, continued -------------------- *)

\* rend_get_service_id returns true: service_id holds the trial's identifier.
RendReturn ==
  /\ pc = "base32_return"
  /\ trials' = Append(trials, [digest |-> buf, id |-> service_id])
  /\ pc' = "compare"
  /\ UNCHANGED << pattern, failed, tested, stop, private_key, ngen, allocated,
                  buf, dirCreated, exported >>
  /\ UNCHANGED encoderVars

\* } while (!pattern_matches_service_id(pattern, service_id));
LoopCondition ==
  /\ pc = "compare"
  /\ pc' = IF pattern_matches_service_id(pattern, service_id) THEN "export" ELSE "generate"
  /\ UNCHANGED << pattern, failed, tested, stop >>
  /\ UNCHANGED searchVars
  /\ UNCHANGED encoderVars

\* export_private_key(private_key, pattern): mkdir, malloc, fopen and
\* PEM_write_RSAPrivateKey are asserted to succeed; mkdir("") always fails.
ExportPrivateKey ==
  /\ pc = "export"
  /\ \/ /\ Abort("mkdir(pattern, S_IRWXU) == 0")
        /\ UNCHANGED << dirCreated, exported >>
     \/ /\ CStr(pattern) # <<>>
        /\ dirCreated' = TRUE
        /\ \/ /\ \E a \in { "file_relpath != NULL", "pem_file != NULL",
                            "PEM_write_RSAPrivateKey(...) == 1" } : Abort(a)
              /\ UNCHANGED exported
           \/ /\ exported' = private_key
              /\ pc' = "done"
              /\ failed' = failed
  /\ UNCHANGED << pattern, tested, stop, private_key, ngen, allocated, buf, trials >>
  /\ UNCHANGED encoderVars

\* The environment raises the stop signal; no statement of the program reads it.
RaiseStop ==
  /\ pc \notin {"done", "aborted"}
  /\ stop = <<>>
  /\ stop' = <<ngen>>
  /\ UNCHANGED << pattern, pc, failed, tested >>
  /\ UNCHANGED searchVars
  /\ UNCHANGED encoderVars

Next ==
  \/ AssertNotTooLong
  \/ AssertValidChars
  \/ GenerateKey
  \/ GetDigest
  \/ Base32Asserts
  \/ Base32Loop
  \/ Base32Terminate
  \/ RendReturn
  \/ LoopCondition
  \/ ExportPrivateKey
  \/ RaiseStop

Spec == Init /\ [][Next]_vars

(* ------------------- base32_encode on its own inputs ------------------- *)

InitEncode ==
  /\ \E a \in EncodeInputs : src = a.src /\ srclen = a.srclen
  /\ destlen \in 0..MaxDestLen
  /\ dest = Rep(Uninit, destlen)
  /\ pc = "base32_assert"
  /\ pattern = <<>>
  /\ failed = ""
  /\ tested = 0
  /\ private_key = 0
  /\ ngen = 0
  /\ allocated = {}
  /\ buf = <<>>
  /\ i = 0
  /\ bit = 0
  /\ srcReads = {}
  /\ destWrites = {}
  /\ skipped = {}
  /\ trials = <<>>
  /\ stop = <<>>
  /\ dirCreated = FALSE
  /\ exported = 0

NextEncode ==
  \/ Base32Asserts
  \/ Base32Loop
  \/ Base32Terminate

SpecEncode == InitEncode /\ [][NextEncode]_vars

(* ------------------------ what the claims refer to --------------------- *)

\* a-z and the digit characters '2'..'7'
IdChar(c) == (c >= 97 /\ c <= 122) \/ (c >= 50 /\ c <= 55)

AllIdChars(s) == \A k \in 1..Len(s) : IdChar(s[k])

IsPrefix(p, s) == Len(p) <= Len(s) /\ SubSeq(s, 1, Len(p)) = p

\* Bit n (from 0) of a byte string, most significant bit of each byte first.
BitAt(s, n) == (s[(n \div 8) + 1] \div 2^(7 - (n % 8))) % 2

\* The 5-bit value of bits 5k..5k+4.
FiveBits(s, k) ==
  16 * BitAt(s, 5 * k) + 8 * BitAt(s, 5 * k + 1) + 4 * BitAt(s, 5 * k + 2)
    + 2 * BitAt(s, 5 * k + 3) + BitAt(s, 5 * k + 4)

\* Symbol w of abcdefghijklmnopqrstuvwxyz234567.
Symbol(w) == IF w < 26 THEN 97 + w ELSE 50 + (w - 26)

SpecValid(p) == Len(p) <= 16 /\ AllIdChars(p)

NoMatchIn(ts) == \A k \in 1..Len(ts) : ~IsPrefix(pattern, CStr(ts[k].id))

(* -------------------------------- claims ------------------------------- *)

\* C1: validation succeeds for every pattern of length 0..16 whose characters
\* are all in a-z or '2'..'7' (so for "abc234" and for the empty pattern).
C1_ValidPatternsPass ==
  SpecValid(pattern) =>
    failed \notin {"pattern_is_not_too_long", "pattern_has_valid_chars"}

\* C2: a pattern of length <= 16 with a character outside a-z and '2'..'7'
\* fails the character check and never reaches the search loop.
C2_InvalidCharRejected ==
  (Len(pattern) <= 16 /\ ~AllIdChars(pattern)) =>
    \/ pc \in {"validate_length", "validate_chars"}
    \/ pc = "aborted" /\ failed = "pattern_has_valid_chars"

\* C3: validation fails as too long exactly when the pattern has more than 16
\* characters, and then before any character is tested.
C3_TooLongExactly ==
  pc # "validate_length" =>
    /\ (failed = "pattern_is_not_too_long") <=> (Len(pattern) > 16)
    /\ Len(pattern) > 16 => pc = "aborted" /\ tested = 0

C3_Witness ==
  /\ pc = "aborted"
  /\ failed = "pattern_is_not_too_long"
  /\ Len(pattern) = 17

\* C4: base32_encode returns srclen*8/5 characters and a terminator, character
\* k being the alphabet symbol of bits 5k..5k+4 of src, most significant bit
\* first; ten zero bytes give sixteen 'a'.
C4_Base32Exact ==
  pc = "base32_return" =>
    LET n == (srclen * 8) \div 5 IN
      /\ i = n
      /\ \A k \in 0..(n - 1) : dest[k + 1] = Symbol(FiveBits(src, k))
      /\ dest[n + 1] = 0
      /\ (srclen = 10 /\ SubSeq(src, 1, 10) = Rep(0, 10)) => CStr(dest) = Rep(97, 16)

C4_Witness ==
  /\ pc = "base32_return"
  /\ srclen = 10
  /\ SubSeq(src, 1, 10) = MixedHead
  /\ Len(CStr(dest)) = 16

\* C5: whenever the loop compares, the service ID has exactly 16 characters,
\* all of abcdefghijklmnopqrstuvwxyz234567, and two digests with the same
\* first 10 bytes have given the same service ID.
C5_ServiceIdShape ==
  pc = "compare" =>
    /\ Len(CStr(service_id)) = 16
    /\ AllIdChars(CStr(service_id))
    /\ \A a, b \in 1..Len(trials) :
         SubSeq(trials[a].digest, 1, 10) = SubSeq(trials[b].digest, 1, 10)
           => trials[a].id = trials[b].id

C5_Witness ==
  /\ pc = "compare"
  /\ Len(trials) = 2
  /\ trials[1].digest # trials[2].digest
  /\ SubSeq(trials[1].digest, 1, 10) = SubSeq(trials[2].digest, 1, 10)

\* C6: the loop ends at the first trial whose service ID has the pattern as a
\* prefix and not earlier, the key exported is the key of that trial, and the
\* empty pattern ends the loop after one key generation.
C6_FirstMatchWins ==
  /\ \A k \in 1..(Len(trials) - 1) : ~IsPrefix(pattern, CStr(trials[k].id))
  /\ (pc = "generate" /\ trials # <<>>) =>
       ~IsPrefix(pattern, CStr(trials[Len(trials)].id))
  /\ (pc \in {"export", "done"} \/ dirCreated) =>
       /\ trials # <<>>
       /\ IsPrefix(pattern, CStr(trials[Len(trials)].id))
       /\ private_key = Len(trials)
       /\ ngen = Len(trials)
  /\ exported # 0 => exported = Len(trials)
  /\ pattern = <<>> => ngen <= 1 /\ (pc = "export" => ngen = 1)

C6_Witness ==
  /\ pc = "done"
  /\ Len(trials) = 2
  /\ exported = 2
  /\ pattern # <<>>

C8_NoRetention ==
  SpecValid(pattern) =>
    /\ Cardinality(allocated) <= 1
    /\ pc = "generate" => allocated = {}

\* C9: no key generation, digest or export before both checks have passed,
\* and a pattern that is too long or has a character outside a-z and
\* '2'..'7' ends in failure with no key generated and no filesystem effect.
C9_FailFast ==
  /\ pc \in {"validate_length", "validate_chars"} =>
       ngen = 0 /\ trials = <<>> /\ ~dirCreated /\ exported = 0
  /\ ~SpecValid(pattern) =>
       /\ pc \in {"validate_length", "validate_chars", "aborted"}
       /\ ngen = 0 /\ trials = <<>> /\ ~dirCreated /\ exported = 0

\* C10: base32_encode reads no source byte at an index >= srclen, skips the
\* look-ahead byte only for a window that does not cross a byte boundary, and
\* writes dest at no index >= destlen, the terminator included.
C10_InBounds ==
  /\ \A r \in srcReads : r < srclen
  /\ \A w \in destWrites : w < destlen
  /\ \A b \in skipped : (b % 8) + 5 <= 8

C10_Witness ==
  /\ pc = "base32_return"
  /\ srclen = 5
  /\ destlen = 9
  /\ srcReads = 0..4
  /\ skipped = {35}
  /\ 8 \in destWrites

====
